---- MODULE Spec2Model ----
(***************************************************************************)
(* Model of the genshin_autobot control loop.                              *)
(*                                                                         *)
(*   Pipeline             core/use_cases/pipeline.py                       *)
(*   GameController       core/use_cases/game_controller.py                *)
(*   EventsChecker        core/use_cases/events_checker.py                 *)
(*   CharacterHealth,                                                      *)
(*   CharacterStateChecker core/entities/character.py                      *)
(*   get_battle_strategy  detection_enemy.py                               *)
(*   detect_game_state    get_game_state.py                                *)
(*                                                                         *)
(* Python's None / Optional[T] is a sequence of length at most one:        *)
(* <<>> is None and <<v>> is the value v.  A str is the sequence of its    *)
(* characters.  A float that is a quotient of two ints is the pair         *)
(* <<numerator, denominator>> with a positive denominator.                 *)
(***************************************************************************)
EXTENDS Integers, Sequences, FiniteSets, TLC

(***************************************************************************)
(* Bounds of the model.                                                    *)
(***************************************************************************)
\* largest max_cycles argument passed to Pipeline.run
MaxCycles == 2
\* cycles after which an uncapped run loop is no longer followed
MaxCount == 3
\* longest list of events one frame shows
MaxEvents == 2

None == <<>>
Some(v) == <<v>>

\* every sequence over S of length at most n
SeqsUpTo(S, n) == UNION {[1..k -> S] : k \in 0..n}

(***************************************************************************)
(* CharacterHealth                                                         *)
(***************************************************************************)
CharacterHealth(c, m) == [current |-> c, maximum |-> m]

percentage(h) ==
    IF h.maximum <= 0 THEN <<0, 1>> ELSE <<h.current, h.maximum>>

\* a threshold that counts exactly 30% as critical
is_critical_inclusive(h) == 10 * percentage(h)[1] <= 3 * percentage(h)[2]

\* p < 0.3 for a quotient p with positive denominator.  The float quotient
\* and the float 0.3 order as the exact values do for operands of this size.
is_critical(h) == 10 * percentage(h)[1] < 3 * percentage(h)[2]

(***************************************************************************)
(* EventType and the responses of GameController                           *)
(***************************************************************************)
EventType == {"DUNGEON_INVITE", "DUNGEON_ACTIVATE", "SQUAD_COMPLETE"}

\* the empty string stands for a falsy event object (None, "", 0)
FalsyEvent == ""

execute_healing == [status |-> "success", action |-> "healing"]

handle_event(event) == [status |-> "success", action |-> "handle_" \o event]

(***************************************************************************)
(* detection_enemy.py                                                      *)
(***************************************************************************)
\* longest list of boxes the detector reports for one screenshot
MaxBoxes == 2
\* longest enemy list handed to get_battle_strategy
MaxEnemies == 4

\* class ids of the detector: 0 boss, 1 enemy with a status, 2 plain enemy
EnemyClasses == {0, 1, 2}

\* confidences in tenths
Confidences == {2, 4, 6}

Boxes == [cls : EnemyClasses, conf : Confidences]

\* the model call `enemy_model(img_cv, conf=confidence_threshold)`: the boxes
\* of the screenshot whose confidence passes the threshold, in order
RECURSIVE enemy_model(_, _)
enemy_model(boxes, confidence_threshold) ==
    IF boxes = <<>> THEN <<>>
    ELSE LET rest == enemy_model(Tail(boxes), confidence_threshold) IN
         IF Head(boxes).conf > confidence_threshold
         THEN <<Head(boxes)>> \o rest
         ELSE rest

detect_enemies(boxes, confidence_threshold) ==
    LET found == enemy_model(boxes, confidence_threshold) IN
    [i \in 1..Len(found) |->
        [type |-> found[i].cls, confidence |-> found[i].conf]]

\* a strategy chosen from the first enemy of the list alone
get_battle_strategy_first(es) ==
    IF es = <<>> THEN "no_enemies"
    ELSE IF es[1].type = 0 THEN "focus_boss"
    ELSE IF es[1].type = 1 THEN "focus_status_enemies"
    ELSE "focus_normal_enemies"

get_battle_strategy(es) ==
    IF es = <<>> THEN "no_enemies"
    ELSE LET enemy_types == [i \in 1..Len(es) |-> es[i].type] IN
         IF \E i \in 1..Len(enemy_types) : enemy_types[i] = 0
         THEN "focus_boss"
         ELSE IF \E i \in 1..Len(enemy_types) : enemy_types[i] = 1
         THEN "focus_status_enemies"
         ELSE "focus_normal_enemies"

(***************************************************************************)
(* get_game_state.py                                                       *)
(***************************************************************************)
\* confidence_threshold=0.3 of line 23, in tenths
StateConfidenceThreshold == 3
\* `map_color > 100` of line 33
MapColorThreshold == 100

\* mean brightness of the map indicator region
MapColors == {0, 100, 101}

Screenshots == [boxes : SeqsUpTo(Boxes, MaxBoxes), map_color : MapColors]

\* a classifier that looks at the map indicator before the enemies
detect_game_state_map_first(shot) ==
    LET found == detect_enemies(shot.boxes, StateConfidenceThreshold) IN
    IF shot.map_color > MapColorThreshold
    THEN [state |-> "map", data |-> <<>>]
    ELSE IF found # <<>> THEN [state |-> "battle", data |-> found]
    ELSE [state |-> "exploring", data |-> <<>>]

detect_game_state(shot) ==
    LET found == detect_enemies(shot.boxes, StateConfidenceThreshold) IN
    IF found # <<>> THEN [state |-> "battle", data |-> found]
    ELSE IF shot.map_color > MapColorThreshold
    THEN [state |-> "map", data |-> <<>>]
    ELSE [state |-> "exploring", data |-> <<>>]

(***************************************************************************)
(* CharacterStateChecker.check_health: str.split, str.strip, int           *)
(***************************************************************************)
\* longest health text the OCR reader returns
MaxTextLen == 4

Characters == {"0", "1", "2", "/", " ", "-", "a"}

Digits == {"0", "1", "2", "4"}

\* the health text of the round-trip scenario, "42/100"
SampleTexts == {<<"4", "2", "/", "1", "0", "0">>}

Texts == SeqsUpTo(Characters, MaxTextLen) \cup SampleTexts

\* text.split('/')
RECURSIVE split(_)
split(text) ==
    IF \A i \in 1..Len(text) : text[i] # "/" THEN <<text>>
    ELSE LET k == CHOOSE i \in 1..Len(text) :
                      /\ text[i] = "/"
                      /\ \A j \in 1..(i - 1) : text[j] # "/"
         IN <<SubSeq(text, 1, k - 1)>> \o split(SubSeq(text, k + 1, Len(text)))

\* s.strip()
RECURSIVE lstrip(_)
lstrip(s) == IF s # <<>> /\ Head(s) = " " THEN lstrip(Tail(s)) ELSE s

RECURSIVE rstrip(_)
rstrip(s) ==
    IF s # <<>> /\ s[Len(s)] = " " THEN rstrip(SubSeq(s, 1, Len(s) - 1)) ELSE s

\* a strip that leaves the blanks at the end
strip_left(s) == lstrip(s)

strip(s) == rstrip(lstrip(s))

DigitValue(ch) ==
    CASE ch = "0" -> 0 [] ch = "1" -> 1 [] ch = "2" -> 2 [] ch = "4" -> 4

RECURSIVE DecimalValue(_)
DecimalValue(ds) ==
    IF ds = <<>> THEN 0
    ELSE 10 * DecimalValue(SubSeq(ds, 1, Len(ds) - 1)) + DigitValue(ds[Len(ds)])

\* int(s): surrounding blanks are dropped, one sign may precede the digits;
\* anything else is a ValueError
int(s) ==
    LET t == strip(s)
        negative == t # <<>> /\ Head(t) = "-"
        ds == IF negative THEN Tail(t) ELSE t
    IN IF ds # <<>> /\ \A i \in 1..Len(ds) : ds[i] \in Digits
       THEN [raised |-> "none",
             value |-> IF negative THEN 0 - DecimalValue(ds) ELSE DecimalValue(ds)]
       ELSE [raised |-> "ValueError", value |-> 0]

\* one entry of readtext: (bbox, text, confidence)
OcrEntry(text) == <<"bbox", text, 9>>

OcrResults == {<<>>} \cup {<<OcrEntry(t)>> : t \in Texts}

Returned(v) == [raised |-> "none", value |-> v]
Raised(exc) == [raised |-> exc, value |-> None]

\* lines 127-143: the body of the try block
check_health_body(ocr) ==
    IF ocr = <<>> THEN Returned(None)
    ELSE LET text == ocr[1][2] IN
         IF \A i \in 1..Len(text) : text[i] # "/" THEN Returned(None)
         ELSE LET parts == split(text)
                  current == int(strip(parts[1]))
                  maximum == int(strip(parts[2]))
              IN IF current.raised # "none" THEN Raised(current.raised)
                 ELSE IF maximum.raised # "none" THEN Raised(maximum.raised)
                 ELSE Returned(Some(CharacterHealth(current.value,
                                                    maximum.value)))

\* an except clause that forgets ValueError
check_health_caught_narrow == {"IndexError", "AttributeError"}

\* line 145: except (IndexError, ValueError, AttributeError)
check_health_caught == {"IndexError", "ValueError", "AttributeError"}

check_health(ocr) ==
    LET r == check_health_body(ocr) IN
    IF r.raised \in check_health_caught THEN Returned(None) ELSE r

(***************************************************************************)
(* What one captured frame shows: the reading a health check of the frame  *)
(* yields and the events an event check of the frame yields.               *)
(***************************************************************************)
HealthReadings ==
    {None, Some(CharacterHealth(20, 100)), Some(CharacterHealth(30, 100)),
     Some(CharacterHealth(5, 0))}

\* an event check reports an event at most once (events_checker.py:79-93)
EventLists ==
    {es \in SeqsUpTo(EventType \cup {FalsyEvent}, MaxEvents) :
        \A i, j \in 1..Len(es) : es[i] = es[j] => i = j}

Frames == [health : HealthReadings, events : EventLists]

NoFrame == [health |-> None, events |-> <<>>]

(***************************************************************************)
(* Pipeline.__init__ accepts every instance of CharacterStateChecker and   *)
(* of EventsChecker.  The classes of the repository define neither         *)
(* check_state nor get_squad_completion_coordinates; a subclass may.       *)
(***************************************************************************)
CharacterCheckers == {"CharacterStateChecker", "subclass"}
EventsCheckers == {"EventsChecker", "subclass"}

EmptyResults ==
    [character_state |-> None, detected_events |-> <<>>, actions_taken |-> <<>>]

NoOutcome == [op |-> "none", result |-> "none"]

\* the exceptions of the pipeline, each with the message or the missing name
NotRunningError == "RuntimeError: Cannot execute cycle: pipeline not running"
NegativeCyclesError == "ValueError: max_cycles must be non-negative"
NoCheckStateError == "AttributeError: check_state"
NoSquadCoordinatesError == "AttributeError: get_squad_completion_coordinates"
EventNoneError == "ValueError: Event cannot be None"

CycleErrors == {NoCheckStateError, NoSquadCoordinatesError, EventNoneError}

VARIABLES
    character_checker,  \* Pipeline._character_checker: its class
    events_checker,     \* Pipeline._events_checker: its class
    is_running,         \* Pipeline._is_running
    call,               \* the Pipeline call in progress: none, execute_cycle, run
    pc,                 \* position of that call
    max_cycles,         \* run: the argument (None or an int)
    cycle_count,        \* run: the local cycle_count
    frame,              \* the frame the cycle in progress looks at
    results,            \* execute_cycle: the local results
    idx,                \* execute_cycle: position of `for event in events`
    invoked,            \* component methods called by the latest cycle
    cycle,              \* latest execute_cycle: none, active, returned, raised
    pending,            \* run: exception travelling through `finally`
    outcome,            \* how the latest completed call ended
    enemies,            \* get_battle_strategy: the argument
    strategy,           \* get_battle_strategy: the value returned
    screenshot,         \* detect_game_state: the argument
    game_state,         \* detect_game_state: the value returned
    ocr_results,        \* check_health: what the OCR reader reads in the crop
    health,             \* check_health: how the call ended
    args,               \* any other function: the arguments of the call
    result,             \* any other function: how the call ended
    bot,                \* CombatBot: current_state and last_strategy
    bot_pc,             \* CombatBot.update: position of the call
    issued,             \* pyautogui calls made by the latest update
    reports,            \* changes printed by the latest update
    controller          \* GameController: _is_running and _game_state

vars == <<character_checker, events_checker, is_running, call, pc,
          max_cycles, cycle_count, frame, results, idx, invoked, cycle,
          pending, outcome, enemies, strategy, screenshot, game_state,
          ocr_results, health, args, result, bot, bot_pc, issued, reports,
          controller>>

machines == <<bot, bot_pc, issued, reports, controller>>

probes == <<enemies, strategy, screenshot, game_state, ocr_results, health,
            args, result, machines>>

components == <<character_checker, events_checker>>

PipelineInit ==
    /\ is_running = FALSE
    /\ call = "none"
    /\ pc = "idle"
    /\ max_cycles = None
    /\ cycle_count = 0
    /\ frame = NoFrame
    /\ results = EmptyResults
    /\ idx = 1
    /\ invoked = <<>>
    /\ cycle = "none"
    /\ pending = "none"
    /\ outcome = NoOutcome

(***************************************************************************)
(* The functions of the repository, each applied to an argument drawn at   *)
(* the start.                                                              *)
(***************************************************************************)
NotCalled == "not called"

\* CombatBot.__init__ (main.py:33-35) and GameController.__init__
\* (game_controller.py:31-38); the empty dict is the empty sequence
MachinesIdle ==
    /\ bot = [current_state |-> "unknown", last_strategy |-> "none"]
    /\ bot_pc = "idle"
    /\ issued = <<>>
    /\ reports = <<>>
    /\ controller = [is_running |-> FALSE, game_state |-> <<>>]

ProbesIdle ==
    /\ enemies = <<>>
    /\ strategy = NotCalled
    /\ screenshot = [boxes |-> <<>>, map_color |-> 0]
    /\ game_state = [state |-> NotCalled, data |-> <<>>]
    /\ ocr_results = <<>>
    /\ health = Raised(NotCalled)
    /\ args = <<>>
    /\ result = Raised(NotCalled)
    /\ MachinesIdle

pipeline == <<character_checker, events_checker, is_running, call, pc,
              max_cycles, cycle_count, frame, results, idx, invoked, cycle,
              pending, outcome>>

PipelineIdle ==
    /\ character_checker = "CharacterStateChecker"
    /\ events_checker = "EventsChecker"
    /\ PipelineInit

StrategyInit ==
    /\ PipelineIdle
    /\ enemies \in SeqsUpTo([type : EnemyClasses, confidence : {6}],
                             MaxEnemies)
    /\ strategy = NotCalled
    /\ screenshot = [boxes |-> <<>>, map_color |-> 0]
    /\ game_state = [state |-> NotCalled, data |-> <<>>]
    /\ ocr_results = <<>>
    /\ health = Raised(NotCalled)
    /\ args = <<>>
    /\ result = Raised(NotCalled)
    /\ MachinesIdle

GetBattleStrategy ==
    /\ strategy = NotCalled
    /\ strategy' = get_battle_strategy(enemies)
    /\ UNCHANGED <<pipeline, enemies, screenshot, game_state, ocr_results,
                   health, args, result, machines>>

SpecStrategy == StrategyInit /\ [][GetBattleStrategy]_vars

GameStateInit ==
    /\ PipelineIdle
    /\ enemies = <<>>
    /\ strategy = NotCalled
    /\ screenshot \in Screenshots
    /\ game_state = [state |-> NotCalled, data |-> <<>>]
    /\ ocr_results = <<>>
    /\ health = Raised(NotCalled)
    /\ args = <<>>
    /\ result = Raised(NotCalled)
    /\ MachinesIdle

DetectGameState ==
    /\ game_state.state = NotCalled
    /\ game_state' = detect_game_state(screenshot)
    /\ UNCHANGED <<pipeline, enemies, strategy, screenshot, ocr_results,
                   health, args, result, machines>>

SpecGameState == GameStateInit /\ [][DetectGameState]_vars

HealthInit ==
    /\ PipelineIdle
    /\ enemies = <<>>
    /\ strategy = NotCalled
    /\ screenshot = [boxes |-> <<>>, map_color |-> 0]
    /\ game_state = [state |-> NotCalled, data |-> <<>>]
    /\ ocr_results \in OcrResults
    /\ health = Raised(NotCalled)
    /\ args = <<>>
    /\ result = Raised(NotCalled)
    /\ MachinesIdle

CheckHealth ==
    /\ health.raised = NotCalled
    /\ health' = check_health(ocr_results)
    /\ UNCHANGED <<pipeline, enemies, strategy, screenshot, game_state,
                   ocr_results, args, result, machines>>

SpecHealth == HealthInit /\ [][CheckHealth]_vars

\* a function applied once to arguments drawn from S
ArgsInit(S) ==
    /\ PipelineIdle
    /\ enemies = <<>>
    /\ strategy = NotCalled
    /\ screenshot = [boxes |-> <<>>, map_color |-> 0]
    /\ game_state = [state |-> NotCalled, data |-> <<>>]
    /\ ocr_results = <<>>
    /\ health = Raised(NotCalled)
    /\ args \in S
    /\ result = Raised(NotCalled)
    /\ MachinesIdle

Call(r) ==
    /\ result.raised = NotCalled
    /\ result' = r
    /\ UNCHANGED <<pipeline, enemies, strategy, screenshot, game_state,
                   ocr_results, health, args, machines>>

(***************************************************************************)
(* CharacterHealth.percentage and CharacterHealth.is_critical              *)
(***************************************************************************)
\* largest health value of a reading
MaxHealth == 10

ReadHealth ==
    Call(Returned([percentage |-> percentage(args),
                   is_critical |-> is_critical(args)]))

SpecReading ==
    /\ ArgsInit({CharacterHealth(c, m) :
                     c \in -1..(MaxHealth + 1), m \in -1..MaxHealth})
    /\ [][ReadHealth]_vars

(***************************************************************************)
(* FrameTextCoordinator: the text -> coordinates dictionary built from the *)
(* OCR output.  A dict is a sequence of <<key, value>> pairs in insertion  *)
(* order with unique keys.  Confidences are in tenths and bbox coordinates *)
(* are floats in tenths of a pixel.                                        *)
(***************************************************************************)
\* longest OCR output
MaxSpans == 2

DEFAULT_CONFIDENCE == 7

\* the literal 0.7 of Model/FrameTextCoordinator.py
LegacyConfidence == 7

Keys(d) == {d[i][1] : i \in 1..Len(d)}

\* d[k] = v
SetItem(d, k, v) ==
    IF k \in Keys(d)
    THEN [i \in 1..Len(d) |-> IF d[i][1] = k THEN <<k, v>> ELSE d[i]]
    ELSE Append(d, <<k, v>>)

\* int(x) for a float x given in tenths: truncation toward zero
IntOfFloat(x) == IF x >= 0 THEN x \div 10 ELSE 0 - ((0 - x) \div 10)

\* [(int(x), int(y)) for x, y in bbox]
IntCoords(bbox) ==
    [i \in 1..Len(bbox) |-> <<IntOfFloat(bbox[i][1]), IntOfFloat(bbox[i][2])>>]

Bboxes ==
    {<<<<5, 5>>, <<25, 5>>, <<25, 15>>, <<5, 15>>>>,
     <<<<10, 20>>, <<39, 20>>, <<39, 30>>, <<10, 30>>>>}

\* OCR spans (bbox, text, confidence)
Spans == SeqsUpTo(Bboxes \X {"a", "b"} \X {6, 7, 8}, MaxSpans)

\* the first n iterations of the loop of _build_text_coords_dict
RECURSIVE BuildLoop(_, _, _)
BuildLoop(spans, threshold, n) ==
    IF n = 0 THEN <<>>
    ELSE LET text_coords == BuildLoop(spans, threshold, n - 1)
             bbox == spans[n][1]
             text == spans[n][2]
             confidence == spans[n][3]
         IN  IF confidence >= threshold
             THEN SetItem(text_coords, text, IntCoords(bbox))
             ELSE text_coords

\* a builder that keeps every span
build_text_coords_dict_unfiltered(spans, threshold) ==
    BuildLoop(spans, 0, Len(spans))

build_text_coords_dict(spans, threshold) ==
    BuildLoop(spans, threshold, Len(spans))

\* the first n iterations of the loop of __get_dict
RECURSIVE GetDictLoop(_, _)
GetDictLoop(text_on_frame, n) ==
    IF n = 0 THEN <<>>
    ELSE LET text_coords == GetDictLoop(text_on_frame, n - 1)
             bbox == text_on_frame[n][1]
             text == text_on_frame[n][2]
             prob == text_on_frame[n][3]
         IN  IF prob >= LegacyConfidence
             THEN SetItem(text_coords, text, bbox)
             ELSE text_coords

get_dict(text_on_frame) == GetDictLoop(text_on_frame, Len(text_on_frame))

BuildTextCoordsDict ==
    /\ args.self = "frame_coordinator.FrameTextCoordinator"
    /\ Call(Returned(build_text_coords_dict(args.spans,
                                            args.confidence_threshold)))

GetDict ==
    /\ args.self = "Model.FrameTextCoordinator"
    /\ Call(Returned(get_dict(args.spans)))

SpecTextCoords ==
    /\ ArgsInit([self : {"frame_coordinator.FrameTextCoordinator"},
                 spans : Spans,
                 confidence_threshold : {0, DEFAULT_CONFIDENCE, 8}]
                \cup [self : {"Model.FrameTextCoordinator"}, spans : Spans])
    /\ [][BuildTextCoordsDict \/ GetDict]_vars

(***************************************************************************)
(* Template matching: ImageMatcher.match_template and the two event-button *)
(* listeners.  The output of cv2.matchTemplate / minMaxLoc is an input:    *)
(* the best score in hundredths and the best location (x, y).              *)
(***************************************************************************)
\* ImageMatcher.__init__'s default threshold 0.8, in hundredths
DefaultThreshold == 80

MatchScores == {50, 80, 90}

MatchLocations == {<<0, 0>>, <<0, 4>>}

FrameHeights == {10, 20}

TemplateHeights == {1, 3}

TemplateWidth == 2

\* methods of event_button_listen
Methods ==
    <<"TM_CCOEFF", "TM_CCOEFF_NORMED", "TM_CCORR", "TM_CCORR_NORMED",
      "TM_SQDIFF", "TM_SQDIFF_NORMED">>

\* all((center+percent) > tup[-1] > (center-percent)
\*     for tup in [bottom_right, top_left])
InBand(im_h, top_left, w, h) ==
    LET center == im_h \div 2
        \* round(im_h * 0.2): im_h * 0.2 is never half way between integers
        percent == (2 * im_h + 5) \div 10
        bottom_right == <<top_left[1] + w, top_left[2] + h>>
    IN  \A tup \in {bottom_right, top_left} :
            /\ center + percent > tup[2]
            /\ tup[2] > center - percent

match_template(a) ==
    IF a.image_empty THEN Raised("ValueError")
    ELSE IF a.template_empty THEN Raised("ValueError")
    ELSE LET threshold == IF a.threshold # None THEN a.threshold[1]
                          ELSE a.self_threshold
         IN  IF a.max_val >= threshold
             THEN Returned(Some(<<a.max_loc[1], a.max_loc[2], a.max_val>>))
             ELSE Returned(None)

\* the loop returns at the first method whose best location is in the band
event_button_listen(a) ==
    IF ~a.template_read THEN Raised("AssertionError")
    ELSE IF \E m \in 1..Len(Methods) :
                InBand(a.im_h, a.top_left[m], TemplateWidth, a.h)
         \* the Russian confirmation message, in English
         THEN Returned(Some("confirmed, the button can be pressed"))
         ELSE Returned(None)

\* im_h is read at line 18 before its assignment at line 31
check_clicable_event_button(a) == Raised("UnboundLocalError")

MatchTemplate ==
    /\ args.fn = "match_template"
    /\ Call(match_template(args))

EventButtonListen ==
    /\ args.fn = "event_button_listen"
    /\ Call(event_button_listen(args))

CheckClicableEventButton ==
    /\ args.fn = "check_clicable_event_button"
    /\ Call(check_clicable_event_button(args))

SpecTemplateMatch ==
    /\ ArgsInit(
        [fn : {"match_template"}, self_threshold : {50, DefaultThreshold},
         threshold : {None, Some(90)}, image_empty : BOOLEAN,
         template_empty : BOOLEAN, im_h : FrameHeights, h : TemplateHeights,
         max_val : MatchScores, max_loc : MatchLocations]
        \cup
        [fn : {"event_button_listen"}, template_read : BOOLEAN,
         im_h : FrameHeights, h : TemplateHeights,
         top_left : [1..Len(Methods) -> MatchLocations]]
        \cup
        [fn : {"check_clicable_event_button"}, im_h : FrameHeights,
         event_type : {"invite", "activate"}])
    /\ [][MatchTemplate \/ EventButtonListen \/ CheckClicableEventButton]_vars

(***************************************************************************)
(* EventsChecker of core/use_cases/events_checker.py.  A text is a         *)
(* sequence of characters; a Cyrillic letter is written as its Latin       *)
(* transliteration after "ru:" (capital letters after "RU:").  The frame   *)
(* is described by which button templates are visible in it.               *)
(***************************************************************************)
\* largest number of texts in the OCR dictionary
MaxTexts == 2

UpperCase ==
    <<"A", "B", "C", "D", "E", "F", "G", "H", "I", "J", "K", "L", "M", "N",
      "O", "P", "Q", "R", "S", "T", "U", "V", "W", "X", "Y", "Z",
      "RU:A", "RU:V", "RU:G", "RU:D", "RU:E", "RU:Z", "RU:N", "RU:O",
      "RU:R", "RU:T", "RU:SH", "RU:YA">>

LowerCase ==
    <<"a", "b", "c", "d", "e", "f", "g", "h", "i", "j", "k", "l", "m", "n",
      "o", "p", "q", "r", "s", "t", "u", "v", "w", "x", "y", "z",
      "ru:a", "ru:v", "ru:g", "ru:d", "ru:e", "ru:z", "ru:n", "ru:o",
      "ru:r", "ru:t", "ru:sh", "ru:ya">>

\* text.lower()
lower(text) ==
    [i \in 1..Len(text) |->
        IF \E k \in 1..Len(UpperCase) : UpperCase[k] = text[i]
        THEN LowerCase[CHOOSE k \in 1..Len(UpperCase) : UpperCase[k] = text[i]]
        ELSE text[i]]

\* keyword in text
Contains(keyword, text) ==
    \E i \in 0..(Len(text) - Len(keyword)) :
        SubSeq(text, i + 1, i + Len(keyword)) = keyword

keywords ==
    <<<<"s", "q", "u", "a", "d">>,
      <<"ru:o", "ru:t", "ru:r", "ru:ya", "ru:d">>,
      <<"c", "o", "m", "p", "l", "e", "t", "e">>,
      <<"ru:z", "ru:a", "ru:v", "ru:e", "ru:r", "ru:sh", "ru:e", "ru:n">>,
      <<"r", "e", "a", "d", "y">>,
      <<"ru:g", "ru:o", "ru:t", "ru:o", "ru:v">>>>

is_squad_complete_text(text) ==
    LET text_lower == lower(text)
    IN  \E k \in 1..Len(keywords) : Contains(keywords[k], text_lower)

\* "Squad", "READY", "already", "ok", the Russian word for ready in capitals
\* and the Russian word for squad followed by "!"
TextDicts ==
    LET texts ==
            {<<"S", "q", "u", "a", "d">>,
             <<"R", "E", "A", "D", "Y">>,
             <<"a", "l", "r", "e", "a", "d", "y">>,
             <<"o", "k">>,
             <<"RU:G", "RU:O", "RU:T", "RU:O", "RU:V">>,
             <<"ru:o", "ru:t", "ru:r", "ru:ya", "ru:d", "!">>}
        coords == {IntCoords(bbox) : bbox \in Bboxes}
    IN  {d \in SeqsUpTo(texts \X coords, MaxTexts) :
            \A i, j \in 1..Len(d) : d[i][1] = d[j][1] => i = j}

\* the first n items of self._text_coords.items()
RECURSIVE FirstSquadText(_, _)
FirstSquadText(text_coords, n) ==
    IF n > Len(text_coords) THEN None
    ELSE IF is_squad_complete_text(text_coords[n][1])
         THEN Some(text_coords[n][2])
         ELSE FirstSquadText(text_coords, n + 1)

get_squad_completion_coords(self) == FirstSquadText(self.text_coords, 1)

\* the placeholder: no template is matched
check_event_button(self, event_type) == FALSE

check_dungeon_invite(self) == check_event_button(self, "DUNGEON_INVITE")

check_dungeon_activation(self) == check_event_button(self, "DUNGEON_ACTIVATE")

\* line 90 calls get_squad_completion_coordinates, which the class lacks
check_events(self) ==
    LET invite == IF check_dungeon_invite(self)
                  THEN <<"DUNGEON_INVITE">> ELSE <<>>
        events == IF check_dungeon_activation(self)
                  THEN Append(invite, "DUNGEON_ACTIVATE") ELSE invite
        \* the attribute lookup of line 90
        squad == Raised(NoSquadCoordinatesError)
    IN  IF squad.raised # "none" THEN squad
        ELSE IF squad.value # None
             THEN Returned(Append(events, "SQUAD_COMPLETE"))
             ELSE Returned(events)

CheckEventsCall ==
    /\ args.fn = "check_events"
    /\ Call(check_events(args))

CheckDungeonInvite ==
    /\ args.fn = "check_dungeon_invite"
    /\ Call(Returned(check_dungeon_invite(args)))

CheckDungeonActivation ==
    /\ args.fn = "check_dungeon_activation"
    /\ Call(Returned(check_dungeon_activation(args)))

GetSquadCompletionCoords ==
    /\ args.fn = "get_squad_completion_coords"
    /\ Call(Returned(get_squad_completion_coords(args)))

SpecEventsChecker ==
    /\ ArgsInit([fn : {"check_events", "check_dungeon_invite",
                       "check_dungeon_activation",
                       "get_squad_completion_coords"},
                 frame : [invite : BOOLEAN, activate : BOOLEAN],
                 text_coords : TextDicts])
    /\ [][CheckEventsCall \/ CheckDungeonInvite \/ CheckDungeonActivation
              \/ GetSquadCompletionCoords]_vars

(***************************************************************************)
(* get_center_coords of utils/geometry_utils.py                            *)
(***************************************************************************)
\* largest coordinate of an enumerated corner
MaxCoord == 2

abs(x) == IF x < 0 THEN 0 - x ELSE x

\* round(np.sqrt(n)) for an integer n >= 0: the nearest integer to the root;
\* the root of an integer is never half way between two integers
RoundSqrt(n) ==
    CHOOSE r \in 0..n :
        /\ r = 0 \/ (2 * r - 1) * (2 * r - 1) <= 4 * n
        /\ 4 * n < (2 * r + 1) * (2 * r + 1)

SampleCorners ==
    {<<<<0, 0>>, <<10, 0>>, <<10, 10>>, <<0, 10>>>>,
     <<<<100, 100>>, <<200, 100>>, <<200, 200>>>>}

\* lists of 0, 2, 3 and 4 corners; a corner of length 1 stands for a
\* malformed corner
CornerLists ==
    LET corners == ((0..MaxCoord) \X (0..MaxCoord)) \cup {<<0>>}
    IN  UNION {[1..k -> corners] : k \in {0, 2, 3, 4}} \cup SampleCorners

\* a centre whose vertical half-length is taken from the first edge
get_center_coords_first_edge(corners) ==
    IF corners = <<>> \/ Len(corners) < 3 THEN Raised("ValueError")
    ELSE IF \E i \in 1..Len(corners) : Len(corners[i]) # 2
         THEN Raised("ValueError")
    ELSE LET lnx == RoundSqrt(abs(
                        (corners[2][1] - corners[1][1])
                            * (corners[2][1] - corners[1][1])
                        - (corners[2][2] - corners[1][2])
                            * (corners[2][2] - corners[1][2]))) \div 2
         IN  Returned(<<corners[1][1] + lnx, corners[1][2] + lnx>>)

get_center_coords(corners) ==
    IF corners = <<>> \/ Len(corners) < 3 THEN Raised("ValueError")
    ELSE IF \E i \in 1..Len(corners) : Len(corners[i]) # 2
         THEN Raised("ValueError")
    ELSE LET lnx == RoundSqrt(abs(
                        (corners[2][1] - corners[1][1])
                            * (corners[2][1] - corners[1][1])
                        - (corners[2][2] - corners[1][2])
                            * (corners[2][2] - corners[1][2]))) \div 2
             lny == RoundSqrt(abs(
                        (corners[3][1] - corners[2][1])
                            * (corners[3][1] - corners[2][1])
                        - (corners[3][2] - corners[2][2])
                            * (corners[3][2] - corners[2][2]))) \div 2
         IN  Returned(<<corners[1][1] + lnx, corners[1][2] + lny>>)

GetCenterCoords == Call(get_center_coords(args))

SpecCenter == ArgsInit(CornerLists) /\ [][GetCenterCoords]_vars

(***************************************************************************)
(* CombatBot of main.py.  update is modelled step by step: the detection   *)
(* and the state tracker (lines 76-80), the strategy and its tracker       *)
(* (lines 39-43), the input (lines 46-61, 67, 72).  A pyautogui call is    *)
(* written as its source text.                                             *)
(***************************************************************************)
\* an input table with the plain attack and the skill key exchanged
StrategyInputExchanged(s) ==
    CASE s = "focus_boss" -> "pyautogui.click(button='right')"
      [] s = "focus_status_enemies" -> "pyautogui.click()"
      [] s = "focus_normal_enemies" -> "pyautogui.press('e')"
      [] OTHER -> "pyautogui.press('w')"

\* lines 46-61
StrategyInput(s) ==
    CASE s = "focus_boss" -> "pyautogui.click(button='right')"
      [] s = "focus_status_enemies" -> "pyautogui.press('e')"
      [] s = "focus_normal_enemies" -> "pyautogui.click()"
      [] OTHER -> "pyautogui.press('w')"

\* no function call in progress
BotInit == ArgsInit({<<>>})

\* main.py:102-103 and update lines 76-80, on screenshots whose boxes have
\* confidence 0.2 or 0.6, below and above the threshold of the detection
Update ==
    /\ bot_pc = "idle"
    /\ \E shot \in {sh \in Screenshots :
                     \A i \in 1..Len(sh.boxes) : sh.boxes[i].conf # 4} :
         LET detected == detect_game_state(shot) IN
         /\ screenshot' = shot
         /\ game_state' = detected
         /\ reports' = IF detected.state # bot.current_state
                       THEN <<"state">> ELSE <<>>
         /\ bot' = [bot EXCEPT !.current_state = detected.state]
    /\ issued' = <<>>
    /\ strategy' = NotCalled
    /\ bot_pc' = "dispatch"
    /\ UNCHANGED <<pipeline, enemies, ocr_results, health, args, result,
                   controller>>

\* handle_battle that issues nothing while the strategy stays the same
HandleBattleOnChange ==
    /\ bot_pc = "dispatch"
    /\ game_state.state = "battle"
    /\ LET chosen == get_battle_strategy(game_state.data) IN
       /\ strategy' = chosen
       /\ reports' = IF chosen # bot.last_strategy
                     THEN Append(reports, "strategy") ELSE reports
       /\ bot' = [bot EXCEPT !.last_strategy = chosen]
       /\ bot_pc' = IF chosen # bot.last_strategy THEN "attack" ELSE "idle"
    /\ UNCHANGED <<pipeline, enemies, screenshot, game_state, ocr_results,
                   health, args, result, issued, controller>>

\* lines 83-84 and handle_battle lines 39-43
HandleBattle ==
    /\ bot_pc = "dispatch"
    /\ game_state.state = "battle"
    /\ LET chosen == get_battle_strategy(game_state.data) IN
       /\ strategy' = chosen
       /\ reports' = IF chosen # bot.last_strategy
                     THEN Append(reports, "strategy") ELSE reports
       /\ bot' = [bot EXCEPT !.last_strategy = chosen]
    /\ bot_pc' = "attack"
    /\ UNCHANGED <<pipeline, enemies, screenshot, game_state, ocr_results,
                   health, args, result, issued, controller>>

\* handle_battle lines 46-61
Attack ==
    /\ bot_pc = "attack"
    /\ issued' = Append(issued, StrategyInput(strategy))
    /\ bot_pc' = "idle"
    /\ UNCHANGED <<pipeline, enemies, strategy, screenshot, game_state,
                   ocr_results, health, args, result, bot, reports,
                   controller>>

\* lines 85-86 and handle_map
HandleMap ==
    /\ bot_pc = "dispatch"
    /\ game_state.state = "map"
    /\ issued' = Append(issued, "pyautogui.press('m')")
    /\ bot_pc' = "idle"
    /\ UNCHANGED <<pipeline, enemies, strategy, screenshot, game_state,
                   ocr_results, health, args, result, bot, reports,
                   controller>>

\* lines 87-88 and handle_exploring
HandleExploring ==
    /\ bot_pc = "dispatch"
    /\ game_state.state = "exploring"
    /\ issued' = Append(issued, "pyautogui.press('w')")
    /\ bot_pc' = "idle"
    /\ UNCHANGED <<pipeline, enemies, strategy, screenshot, game_state,
                   ocr_results, health, args, result, bot, reports,
                   controller>>

SpecCombatBot ==
    /\ BotInit
    /\ [][Update \/ HandleBattle \/ Attack \/ HandleMap
              \/ HandleExploring]_vars

(***************************************************************************)
(* GameController of core/use_cases/game_controller.py.  A method is an    *)
(* operator from the object to the object after the call and the way the   *)
(* call ended; a dict is a sequence of <<key, value>> pairs.               *)
(***************************************************************************)
\* longest action name
MaxNameLen == 3

AlreadyRunningError == "RuntimeError: Game controller is already running"

NotRunningGameError == "RuntimeError: Game controller is not running"

CannotExecuteError ==
    "RuntimeError: Cannot execute action: controller is not running"

EmptyActionError == "ValueError: Action name cannot be empty"

ActiveState == <<<<"status", "active">>>>

\* a start without the check of lines 51-54
start_game_unchecked(self) ==
    [self |-> [is_running |-> TRUE, game_state |-> ActiveState],
     result |-> Returned(None)]

start_game(self) ==
    IF self.is_running
    THEN [self |-> self, result |-> Raised(AlreadyRunningError)]
    ELSE [self |-> [is_running |-> TRUE, game_state |-> ActiveState],
          result |-> Returned(None)]

\* a stop that keeps the game state
stop_game_keeping_state(self) ==
    IF ~self.is_running
    THEN [self |-> self, result |-> Raised(NotRunningGameError)]
    ELSE [self |-> [self EXCEPT !.is_running = FALSE],
          result |-> Returned(None)]

stop_game(self) ==
    IF ~self.is_running
    THEN [self |-> self, result |-> Raised(NotRunningGameError)]
    ELSE [self |-> [is_running |-> FALSE, game_state |-> <<>>],
          result |-> Returned(None)]

\* `not action or not action.strip()`
execute_action(self, action, params) ==
    IF ~self.is_running
    THEN [self |-> self, result |-> Raised(CannotExecuteError)]
    ELSE IF action = <<>> \/ strip(action) = <<>>
    THEN [self |-> self, result |-> Raised(EmptyActionError)]
    ELSE [self |-> self,
          result |-> Returned([status |-> "success", action |-> action])]

\* one call of a method on the controller
ControllerCall(a, r) ==
    /\ args' = a
    /\ controller' = r.self
    /\ result' = r.result
    /\ UNCHANGED <<pipeline, enemies, strategy, screenshot, game_state,
                   ocr_results, health, bot, bot_pc, issued, reports>>

StartGame == ControllerCall([fn |-> "start_game"], start_game(controller))

StopGame == ControllerCall([fn |-> "stop_game"], stop_game(controller))

ExecuteAction ==
    \E action \in SeqsUpTo({"a", "b", " "}, MaxNameLen),
       params \in {None, <<<<"target", "boss">>>>} :
        ControllerCall([fn |-> "execute_action", action |-> action,
                        params |-> params],
                       execute_action(controller, action, params))

ExecuteHealing ==
    ControllerCall([fn |-> "execute_healing"],
                   [self |-> controller, result |-> Returned(execute_healing)])

HandleEventCall ==
    \E event \in EventType \cup {FalsyEvent} :
        ControllerCall([fn |-> "handle_event", event |-> event],
                       [self |-> controller,
                        result |-> IF event = FalsyEvent
                                   THEN Raised(EventNoneError)
                                   ELSE Returned(handle_event(event))])

SpecGameController ==
    /\ BotInit
    /\ [][StartGame \/ StopGame \/ ExecuteAction \/ ExecuteHealing
              \/ HandleEventCall]_vars

(***************************************************************************)
(* MouseController of infrastructure/input/mouse_controller.py.  The value *)
(* of a call is the list of pyautogui calls it made.                       *)
(***************************************************************************)
\* 0 <= x <= self._screen_width and 0 <= y <= self._screen_height
is_valid_coords(self, x, y) ==
    /\ 0 <= x
    /\ x <= self.screen_width
    /\ 0 <= y
    /\ y <= self.screen_height

\* duration in tenths of a second
move_cursor_to_coords(self, coords, duration) ==
    LET x == coords[1]
        y == coords[2]
    IN  IF ~is_valid_coords(self, x, y) THEN Raised("ValueError")
        ELSE Returned(<<[fn |-> "moveTo", x |-> x, y |-> y,
                         duration |-> duration]>>)

click(self, coords) ==
    LET moved == move_cursor_to_coords(self, coords, 1)
    IN  IF moved.raised # "none" THEN moved
        ELSE Returned(Append(moved.value, [fn |-> "click"]))

MoveCursorToCoords ==
    /\ args.fn = "move_cursor_to_coords"
    /\ Call(move_cursor_to_coords(args.self, args.coords, 1))

Click ==
    /\ args.fn = "click"
    /\ Call(click(args.self, args.coords))

\* the screen size is pgui.size()
SpecMouse ==
    /\ ArgsInit([fn : {"move_cursor_to_coords", "click"},
                 self : {[screen_width |-> 2, screen_height |-> 1],
                         [screen_width |-> 3, screen_height |-> 2]},
                 coords : (-1..4) \X (-1..3)])
    /\ [][MoveCursorToCoords \/ Click]_vars

(***************************************************************************)
(* Argument checks of the constructors, of match_template and of the       *)
(* health-bar crop.  A frame is None or its height and width; thresholds   *)
(* are in hundredths.                                                      *)
(***************************************************************************)
ImageFrames ==
    {None, Some([height |-> 0, width |-> 0]),
     Some([height |-> 20, width |-> 40]),
     Some([height |-> 100, width |-> 200])}

ThresholdArguments == {-1, 0, 50, 100, 101}

\* frame is None or frame.size == 0, for the frame passed as image
InvalidFrame(image) ==
    image = None \/ image[1].height * image[1].width = 0

\* an ImageMatcher that takes 0.0 and 1.0 for out of range
image_matcher_init_exclusive(threshold) ==
    IF ~(0 < threshold /\ threshold < 100) THEN Raised("ValueError")
    ELSE Returned([threshold |-> threshold])

\* ImageMatcher.__init__
image_matcher_init(threshold) ==
    IF ~(0 <= threshold /\ threshold <= 100) THEN Raised("ValueError")
    ELSE Returned([threshold |-> threshold])

\* FrameTextCoordinator.__init__
frame_coordinator_init(image, confidence_threshold) ==
    IF InvalidFrame(image) THEN Raised("ValueError")
    ELSE IF ~(0 <= confidence_threshold /\ confidence_threshold <= 100)
    THEN Raised("ValueError")
    ELSE Returned([frame |-> image,
                   confidence_threshold |-> confidence_threshold,
                   reader |-> "easyocr.Reader"])

\* EventsChecker.__init__
events_checker_init(image, text_coords_dict) ==
    IF InvalidFrame(image) THEN Raised("ValueError")
    ELSE Returned([frame |-> image, text_coords |-> text_coords_dict])

\* int(n * 0.05), int(n * 0.35), int(n * 0.15) for p = 5, 35, 15
IntOfShare(n, p) == (n * p) \div 100

\* the crop frame[y1:y2, x1:x2]
crop_health_bar_region(image) ==
    IF InvalidFrame(image) THEN Raised("ValueError")
    ELSE LET height == image[1].height
             width == image[1].width
         IN  Returned([x1 |-> IntOfShare(width, 5),
                       x2 |-> IntOfShare(width, 35),
                       y1 |-> IntOfShare(height, 5),
                       y2 |-> IntOfShare(height, 15)])

ImageMatcherInit ==
    /\ args.fn = "ImageMatcher.__init__"
    /\ Call(image_matcher_init(args.threshold))

FrameCoordinatorInit ==
    /\ args.fn = "FrameTextCoordinator.__init__"
    /\ Call(frame_coordinator_init(args.frame, args.threshold))

EventsCheckerInit ==
    /\ args.fn = "EventsChecker.__init__"
    /\ Call(events_checker_init(args.frame, args.text_coords_dict))

CropHealthBarRegion ==
    /\ args.fn = "_crop_health_bar_region"
    /\ Call(crop_health_bar_region(args.frame))

MatchTemplateOnFrame ==
    /\ args.fn = "ImageMatcher.match_template"
    /\ Call(match_template(
           [image_empty |-> InvalidFrame(args.frame),
            template_empty |-> InvalidFrame(args.template),
            threshold |-> None, self_threshold |-> DefaultThreshold,
            max_val |-> args.max_val, max_loc |-> args.max_loc]))

SpecArgumentChecks ==
    /\ ArgsInit(
        [fn : {"ImageMatcher.__init__"}, threshold : ThresholdArguments]
        \cup [fn : {"FrameTextCoordinator.__init__"}, frame : ImageFrames,
              threshold : ThresholdArguments]
        \cup [fn : {"EventsChecker.__init__"}, frame : ImageFrames,
              text_coords_dict : TextDicts]
        \cup [fn : {"_crop_health_bar_region"}, frame : ImageFrames]
        \cup [fn : {"ImageMatcher.match_template"}, frame : ImageFrames,
              template : ImageFrames, max_val : MatchScores,
              max_loc : MatchLocations])
    /\ [][ImageMatcherInit \/ FrameCoordinatorInit \/ EventsCheckerInit
              \/ CropHealthBarRegion \/ MatchTemplateOnFrame]_vars

Init ==
    /\ character_checker \in CharacterCheckers
    /\ events_checker \in EventsCheckers
    /\ PipelineInit
    /\ ProbesIdle

(***************************************************************************)
(* Pipeline.start, Pipeline.stop                                           *)
(***************************************************************************)
Start ==
    /\ pc = "idle"
    /\ is_running' = TRUE
    /\ outcome' = [op |-> "start", result |-> "returned"]
    /\ UNCHANGED <<components, probes, call, pc, max_cycles, cycle_count, frame,
                   results, idx, invoked, cycle, pending>>

Stop ==
    /\ pc = "idle"
    /\ is_running' = FALSE
    /\ outcome' = [op |-> "stop", result |-> "returned"]
    /\ UNCHANGED <<components, probes, call, pc, max_cycles, cycle_count, frame,
                   results, idx, invoked, cycle, pending>>

\* stop() called from elsewhere while a call of the pipeline is in progress
StopRequest ==
    /\ pc # "idle"
    /\ is_running = TRUE
    /\ is_running' = FALSE
    /\ UNCHANGED <<components, probes, call, pc, max_cycles, cycle_count, frame,
                   results, idx, invoked, cycle, pending, outcome>>

(***************************************************************************)
(* Pipeline.execute_cycle                                                  *)
(***************************************************************************)
\* a cycle that starts on the previous cycle's results
EnterCycleKeepingResults(f) ==
    /\ frame' = f
    /\ idx' = 1
    /\ cycle' = "active"
    /\ pc' = "check_state"
    /\ UNCHANGED <<results, invoked>>

\* lines 122-128: the body begins on a fresh frame
EnterCycle(f) ==
    /\ frame' = f
    /\ results' = EmptyResults
    /\ idx' = 1
    /\ invoked' = <<>>
    /\ cycle' = "active"
    /\ pc' = "check_state"

\* an except clause that logs the exception and does not re-raise it
RaiseFromCycleSwallowed(exc) ==
    /\ cycle' = "raised"
    /\ IF call = "execute_cycle"
       THEN /\ outcome' = [op |-> "execute_cycle", result |-> "returned"]
            /\ pc' = "idle"
            /\ call' = "none"
            /\ UNCHANGED pending
       ELSE /\ pc' = "sleep"
            /\ UNCHANGED <<call, outcome, pending>>

\* an exception leaves execute_cycle (logged and re-raised by lines 146-148)
RaiseFromCycle(exc) ==
    /\ cycle' = "raised"
    /\ IF call = "execute_cycle"
       THEN /\ outcome' = [op |-> "execute_cycle", result |-> exc]
            /\ pc' = "idle"
            /\ call' = "none"
            /\ UNCHANGED pending
       ELSE /\ pending' = exc
            /\ pc' = "finally"
            /\ UNCHANGED <<call, outcome>>

\* execute_cycle without the check of lines 117-120
ExecuteCycleUnguarded ==
    /\ pc = "idle"
    /\ \E f \in Frames : EnterCycle(f)
    /\ call' = "execute_cycle"
    /\ UNCHANGED <<components, probes, is_running, max_cycles, cycle_count,
                   pending, outcome>>

ExecuteCycle ==
    /\ pc = "idle"
    /\ IF ~is_running
       THEN /\ outcome' = [op |-> "execute_cycle", result |-> NotRunningError]
            /\ UNCHANGED <<components, probes, is_running, call, pc, max_cycles,
                           cycle_count, frame, results, idx, invoked, cycle,
                           pending>>
       ELSE /\ \E f \in Frames : EnterCycle(f)
            /\ call' = "execute_cycle"
            /\ UNCHANGED <<components, probes, is_running, max_cycles, cycle_count,
                           pending, outcome>>

\* line 130: char_state = self._character_checker.check_state()
CheckState ==
    /\ pc = "check_state"
    /\ invoked' = Append(invoked, "check_state")
    /\ IF character_checker = "CharacterStateChecker"
       THEN /\ RaiseFromCycle(NoCheckStateError)
            /\ UNCHANGED results
       ELSE /\ results' = [results EXCEPT !.character_state = frame.health]
            /\ pc' = "check_events"
            /\ UNCHANGED <<call, cycle, pending, outcome>>
    /\ UNCHANGED <<components, probes, is_running, max_cycles, cycle_count, frame, idx>>

\* line 134: events = self._events_checker.check_events()
CheckEvents ==
    /\ pc = "check_events"
    /\ invoked' = Append(invoked, "check_events")
    /\ IF events_checker = "EventsChecker"
       THEN /\ RaiseFromCycle(NoSquadCoordinatesError)
            /\ UNCHANGED results
       ELSE /\ results' = [results EXCEPT !.detected_events = frame.events]
            /\ pc' = "healing"
            /\ UNCHANGED <<call, cycle, pending, outcome>>
    /\ UNCHANGED <<components, probes, is_running, max_cycles, cycle_count, frame, idx>>

\* lines 138-140
Healing ==
    /\ pc = "healing"
    /\ IF results.character_state # None
          /\ is_critical(results.character_state[1])
       THEN /\ invoked' = Append(invoked, "execute_healing")
            /\ results' = [results EXCEPT !.actions_taken =
                               Append(@, execute_healing)]
       ELSE UNCHANGED <<invoked, results>>
    /\ pc' = "handle_events"
    /\ idx' = 1
    /\ UNCHANGED <<components, probes, is_running, call, max_cycles, cycle_count,
                   frame, cycle, pending, outcome>>

\* an iteration that keeps only the latest response
HandleEventReplacing ==
    /\ pc = "handle_events"
    /\ idx <= Len(results.detected_events)
    /\ invoked' = Append(invoked, "handle_event")
    /\ LET event == results.detected_events[idx] IN
       IF event = FalsyEvent
       THEN /\ RaiseFromCycle(EventNoneError)
            /\ UNCHANGED <<results, idx>>
       ELSE /\ results' = [results EXCEPT !.actions_taken =
                               <<handle_event(event)>>]
            /\ idx' = idx + 1
            /\ UNCHANGED <<call, pc, cycle, pending, outcome>>
    /\ UNCHANGED <<components, probes, is_running, max_cycles, cycle_count,
                   frame>>

\* lines 142-144: one iteration of the loop over events
HandleEvent ==
    /\ pc = "handle_events"
    /\ idx <= Len(results.detected_events)
    /\ invoked' = Append(invoked, "handle_event")
    /\ LET event == results.detected_events[idx] IN
       IF event = FalsyEvent
       THEN /\ RaiseFromCycle(EventNoneError)
            /\ UNCHANGED <<results, idx>>
       ELSE /\ results' = [results EXCEPT !.actions_taken =
                               Append(@, handle_event(event))]
            /\ idx' = idx + 1
            /\ UNCHANGED <<call, pc, cycle, pending, outcome>>
    /\ UNCHANGED <<components, probes, is_running, max_cycles, cycle_count, frame>>

\* line 150 `return results`; in run, lines 177-178 count the cycle
CycleReturn ==
    /\ pc = "handle_events"
    /\ idx > Len(results.detected_events)
    /\ cycle' = "returned"
    /\ IF call = "execute_cycle"
       THEN /\ outcome' = [op |-> "execute_cycle", result |-> "returned"]
            /\ pc' = "idle"
            /\ call' = "none"
            /\ UNCHANGED cycle_count
       ELSE /\ cycle_count' = cycle_count + 1
            /\ pc' = "sleep"
            /\ UNCHANGED <<call, outcome>>
    /\ UNCHANGED <<components, probes, is_running, max_cycles, frame, results, idx,
                   invoked, pending>>

(***************************************************************************)
(* Pipeline.run                                                            *)
(***************************************************************************)
RunArguments == {None} \cup {Some(n) : n \in -1..MaxCycles}

\* lines 164-170
Run ==
    /\ pc = "idle"
    /\ \E mc \in RunArguments :
         IF mc # None /\ mc[1] < 0
         THEN /\ outcome' = [op |-> "run", result |-> NegativeCyclesError]
              /\ UNCHANGED <<components, probes, is_running, call, pc, max_cycles,
                             cycle_count, frame, results, idx, invoked,
                             cycle, pending>>
         ELSE /\ is_running' = TRUE
              /\ max_cycles' = mc
              /\ cycle_count' = 0
              /\ call' = "run"
              /\ pc' = "loop"
              /\ pending' = "none"
              /\ UNCHANGED <<components, probes, frame, results, idx, invoked, cycle,
                             outcome>>

\* `if max_cycles and cycle_count >= max_cycles` (line 174)
CapReached ==
    /\ max_cycles # None
    /\ max_cycles[1] # 0
    /\ cycle_count >= max_cycles[1]

\* lines 173-177: the loop test, the cap test and the entry into the cycle
LoopTest ==
    /\ pc = "loop"
    /\ IF ~is_running \/ CapReached
       THEN /\ pc' = "finally"
            /\ UNCHANGED <<frame, results, idx, invoked, cycle>>
       ELSE /\ cycle_count < MaxCount
            /\ \E f \in Frames : EnterCycle(f)
    /\ UNCHANGED <<components, probes, is_running, call, max_cycles, cycle_count,
                   pending, outcome>>

\* line 179: time.sleep(0.1)
Sleep ==
    /\ pc = "sleep"
    /\ pc' = "loop"
    /\ UNCHANGED <<components, probes, is_running, call, max_cycles, cycle_count,
                   frame, results, idx, invoked, cycle, pending, outcome>>

\* run without the `finally: self.stop()`
FinallyWithoutStop ==
    /\ pc = "finally"
    /\ outcome' = [op |-> "run",
                   result |-> IF pending = "none" THEN "returned" ELSE pending]
    /\ pending' = "none"
    /\ pc' = "idle"
    /\ call' = "none"
    /\ max_cycles' = None
    /\ cycle_count' = 0
    /\ UNCHANGED <<components, probes, is_running, frame, results, idx,
                   invoked, cycle>>

\* lines 183-184: `finally: self.stop()`, then run returns or re-raises and
\* its locals are gone
Finally ==
    /\ pc = "finally"
    /\ is_running' = FALSE
    /\ outcome' = [op |-> "run",
                   result |-> IF pending = "none" THEN "returned" ELSE pending]
    /\ pending' = "none"
    /\ pc' = "idle"
    /\ call' = "none"
    /\ max_cycles' = None
    /\ cycle_count' = 0
    /\ UNCHANGED <<components, probes, frame, results, idx, invoked, cycle>>

InLoopBody == pc \in {"loop", "check_state", "check_events", "healing",
                      "handle_events", "sleep"}

InCycle == pc \in {"check_state", "check_events", "healing", "handle_events"}

\* Ctrl+C while the call is inside its try block.  KeyboardInterrupt is not
\* an Exception: line 146 lets it pass, line 181 of run catches it.
KeyboardInterrupt ==
    /\ InLoopBody
    /\ cycle' = IF InCycle THEN "interrupted" ELSE cycle
    /\ IF call = "execute_cycle"
       THEN /\ outcome' = [op |-> "execute_cycle",
                           result |-> "KeyboardInterrupt"]
            /\ pc' = "idle"
            /\ call' = "none"
            /\ UNCHANGED pending
       ELSE /\ pc' = "finally"
            /\ pending' = "none"
            /\ UNCHANGED <<call, outcome>>
    /\ UNCHANGED <<components, probes, is_running, max_cycles, cycle_count, frame,
                   results, idx, invoked>>

Next ==
    \/ Start
    \/ Stop
    \/ StopRequest
    \/ ExecuteCycle
    \/ CheckState
    \/ CheckEvents
    \/ Healing
    \/ HandleEvent
    \/ CycleReturn
    \/ Run
    \/ LoopTest
    \/ Sleep
    \/ Finally
    \/ KeyboardInterrupt

Spec == Init /\ [][Next]_vars

TypeOK ==
    /\ character_checker \in CharacterCheckers
    /\ events_checker \in EventsCheckers
    /\ is_running \in BOOLEAN
    /\ call \in {"none", "execute_cycle", "run"}
    /\ max_cycles \in RunArguments
    /\ cycle_count \in 0..(MaxCount + 1)
    /\ frame \in Frames
    /\ cycle \in {"none", "active", "returned", "raised", "interrupted"}

(***************************************************************************)
(* Properties                                                              *)
(***************************************************************************)
IsPrefix(a, b) == Len(a) <= Len(b) /\ SubSeq(b, 1, Len(a)) = a

Critical(reading) == reading # None /\ is_critical(reading[1])

CycleEnded == cycle \in {"returned", "raised"}

\* C1: execute_cycle on a Stopped pipeline raises the not-running error,
\* starts no cycle, calls no component and changes nothing but the reported
\* outcome of the call.
C1_StoppedCycleRaises ==
    [][(pc = "idle" /\ ~is_running) =>
          /\ call' # "execute_cycle"
          /\ cycle' = cycle
          /\ invoked' = invoked
          /\ results' = results
          /\ ((outcome' # outcome /\ outcome'.op = "execute_cycle") =>
                 /\ outcome'.result = NotRunningError
                 /\ UNCHANGED <<components, is_running, call, pc, max_cycles,
                                cycle_count, frame, idx, pending>>)]_vars

C1_Witness ==
    /\ outcome = [op |-> "execute_cycle", result |-> NotRunningError]
    /\ ~is_running
    /\ cycle = "returned"
    /\ results.actions_taken # <<>>

\* C2 (as claimed): a cycle over a frame with no health reading and no event
\* ends by returning empty results, never by raising.
C2_QuietCycleReturns ==
    (CycleEnded /\ frame.health = None /\ frame.events = <<>>) =>
        (cycle = "returned" /\ results = EmptyResults)

\* C3: an exception raised by a step of a cycle leaves execute_cycle; inside
\* run it travels through the finally clause and out of run unchanged, no
\* further cycle is entered and the pipeline is left Stopped.
C3_FailedCyclePropagates ==
    [][/\ (cycle = "active" /\ cycle' = "raised") =>
              IF call = "run"
              THEN /\ pc' = "finally"
                   /\ pending' \in CycleErrors
                   /\ cycle_count' = cycle_count
              ELSE /\ pc' = "idle"
                   /\ outcome'.op = "execute_cycle"
                   /\ outcome'.result \in CycleErrors
       /\ (pc = "finally" /\ pending # "none") =>
              /\ cycle' = "raised"
              /\ \/ /\ pc' = "finally"
                    /\ pending' = pending
                    /\ cycle_count' = cycle_count
                 \/ /\ pc' = "idle"
                    /\ outcome' = [op |-> "run", result |-> pending]
                    /\ ~is_running']_vars

C3_Witness ==
    /\ outcome = [op |-> "run", result |-> EventNoneError]
    /\ cycle = "raised"
    /\ results.actions_taken # <<>>
    /\ pc = "idle"
    /\ ~is_running

C6_CriticalHealsFirst ==
    /\ (CycleEnded /\ Critical(frame.health)) =>
           /\ results.actions_taken # <<>>
           /\ results.actions_taken[1] = execute_healing
    /\ (CycleEnded /\ ~Critical(frame.health)) =>
           \A i \in 1..Len(results.actions_taken) :
               results.actions_taken[i] # execute_healing

\* the action list the rules of lines 138-144 produce for a reading and events
ExpectedActions(reading, events) ==
    (IF Critical(reading) THEN <<execute_healing>> ELSE <<>>)
        \o [i \in 1..Len(events) |-> handle_event(events[i])]

\* C7: the action list of a cycle that returned is the optional healing
\* action followed by one response per detected event in the order of the
\* events, and while a cycle runs its action list only grows at the end.
C7_ActionsFollowEvents ==
    /\ [](cycle = "returned" =>
            /\ results.actions_taken =
                   ExpectedActions(results.character_state,
                                   results.detected_events)
            /\ Len(results.actions_taken) =
                   Len(results.detected_events)
                     + (IF Critical(results.character_state) THEN 1 ELSE 0))
    /\ [][(cycle = "active" /\ cycle' \in {"active", "returned"}) =>
             IsPrefix(results.actions_taken, results'.actions_taken)]_vars

C7_Witness ==
    /\ cycle = "returned"
    /\ Critical(results.character_state)
    /\ results.detected_events = <<"SQUAD_COMPLETE", "DUNGEON_INVITE">>
    /\ Len(results.actions_taken) = 3

TypesPresent == {enemies[i].type : i \in 1..Len(enemies)}

\* C8: the strategy depends only on the set of enemy types present:
\* boss before status enemy before plain enemy, no_enemies for the empty list.
C8_StrategyByPriority ==
    strategy # NotCalled =>
        strategy = (IF 0 \in TypesPresent THEN "focus_boss"
                    ELSE IF 1 \in TypesPresent THEN "focus_status_enemies"
                    ELSE IF TypesPresent # {} THEN "focus_normal_enemies"
                    ELSE "no_enemies")

C8_Witness ==
    /\ strategy = "focus_boss"
    /\ Len(enemies) = 3
    /\ enemies[1].type = 2
    /\ enemies[2].type = 1
    /\ enemies[3].type = 0

EnemyDetected ==
    \E i \in 1..Len(screenshot.boxes) :
        screenshot.boxes[i].conf > StateConfidenceThreshold

\* C9: battle exactly when an enemy is detected, whatever the map indicator
\* shows, and then with the non-empty enemy list; otherwise map exactly when
\* the indicator is brighter than the threshold, else exploring, both with an
\* empty list.
C9_StateByPriority ==
    game_state.state # NotCalled =>
        /\ game_state.state \in {"battle", "map", "exploring"}
        /\ game_state.state = "battle" <=> EnemyDetected
        /\ game_state.state = "battle" <=> game_state.data # <<>>
        /\ game_state.state = "battle" =>
               game_state.data =
                   detect_enemies(screenshot.boxes, StateConfidenceThreshold)
        /\ game_state.state = "map" <=>
               (~EnemyDetected /\ screenshot.map_color > MapColorThreshold)

C9_Witness ==
    /\ game_state.state = "battle"
    /\ screenshot.map_color > MapColorThreshold
    /\ Len(game_state.data) = 1
    /\ Len(screenshot.boxes) = 2

HealthText == ocr_results[1][2]

HasSlash(text) == \E i \in 1..Len(text) : text[i] = "/"

\* a str that int() rejects
NotAnInteger(s) == int(s).raised # "none"

\* C10: check_health lets no exception out, and for an empty OCR result, a
\* text without '/' or a text with a half that is not an integer it returns
\* None.
C10_MalformedHealthIsNone ==
    health.raised # NotCalled =>
        /\ health.raised = "none"
        /\ ocr_results = <<>> => health.value = None
        /\ (ocr_results # <<>> /\ ~HasSlash(HealthText)) => health.value = None
        /\ (ocr_results # <<>> /\ HasSlash(HealthText)
              /\ (\/ NotAnInteger(split(HealthText)[1])
                  \/ NotAnInteger(split(HealthText)[2]))) =>
               health.value = None

C10_Witness ==
    /\ health = Returned(None)
    /\ ocr_results = <<OcrEntry(<<"1", "/", "a">>)>>

SlashCount(text) == Cardinality({i \in 1..Len(text) : text[i] = "/"})

\* C11 (as claimed): a text with two or more '/' yields no reading.
C11_TwoSeparatorsUnavailable ==
    (health.raised # NotCalled /\ ocr_results # <<>>
       /\ SlashCount(HealthText) >= 2) =>
        health = Returned(None)

\* C12 (as claimed): every reading returned has current >= 0 and maximum > 0.
C12_ReadingInRange ==
    (health.raised = "none" /\ health.value # None) =>
        /\ health.value[1].current >= 0
        /\ health.value[1].maximum > 0

IsBlank(s) == \A i \in 1..Len(s) : s[i] = " "

IsNumber(s) == s # <<>> /\ \A i \in 1..Len(s) : s[i] \in Digits

\* the numbers n for which s is the decimal digits of n between blanks
PaddedNumbers(s) ==
    {DecimalValue(SubSeq(s, i, j)) :
        <<i, j>> \in {ij \in (1..Len(s)) \X (1..Len(s)) :
                        /\ ij[1] <= ij[2]
                        /\ IsBlank(SubSeq(s, 1, ij[1] - 1))
                        /\ IsNumber(SubSeq(s, ij[1], ij[2]))
                        /\ IsBlank(SubSeq(s, ij[2] + 1, Len(s)))}}

\* C13: a text '<c>/<m>' with c >= 0 and m > 0 in decimal digits, blanks
\* allowed around either number, yields the reading (c, m); "42/100" yields
\* (42, 100), which is not critical.
C13_WellFormedTextIsRead ==
    (health.raised # NotCalled /\ ocr_results # <<>>) =>
        /\ \A k \in 1..Len(HealthText) :
             HealthText[k] = "/" =>
               \A c \in PaddedNumbers(SubSeq(HealthText, 1, k - 1)) :
                 \A m \in PaddedNumbers(SubSeq(HealthText, k + 1,
                                               Len(HealthText))) :
                   m > 0 => health = Returned(Some(CharacterHealth(c, m)))
        /\ HealthText \in SampleTexts =>
               /\ health = Returned(Some(CharacterHealth(42, 100)))
               /\ ~is_critical(health.value[1])

C13_Witness ==
    /\ ocr_results = <<OcrEntry(<<"4", "2", "/", "1", "0", "0">>)>>
    /\ health = Returned(Some(CharacterHealth(42, 100)))

\* C14: for a reading with maximum > 0 the percentage is current/maximum and
\* the reading is critical exactly when 10*current < 3*maximum, so not at
\* exactly 30%, and also when current exceeds maximum.
C14_CriticalBelowThirtyPercent ==
    (result.raised = "none" /\ args.maximum > 0) =>
        /\ result.value.percentage[2] > 0
        /\ result.value.percentage[1] * args.maximum
               = args.current * result.value.percentage[2]
        /\ result.value.is_critical <=> 10 * args.current < 3 * args.maximum
        /\ 10 * args.current = 3 * args.maximum => ~result.value.is_critical

C14_Witness ==
    /\ args = CharacterHealth(3, 10)
    /\ result.raised = "none"
    /\ ~result.value.is_critical

\* the confidence floor in force and the value stored for a kept span
Floor ==
    IF args.self = "Model.FrameTextCoordinator" THEN LegacyConfidence
    ELSE args.confidence_threshold

Stored(bbox) == IF args.self = "Model.FrameTextCoordinator" THEN bbox ELSE IntCoords(bbox)

\* C15: every entry of the text dictionary comes from an OCR span whose
\* confidence is at least the floor (the configured one, 0.7 in the older
\* class), and a span below the floor adds no entry: its text is a key only
\* if another span at or above the floor carries the same text.
C15_LowConfidenceExcluded ==
    result.raised = "none" =>
        /\ \A j \in 1..Len(result.value) :
               \E i \in 1..Len(args.spans) :
                   /\ args.spans[i][3] >= Floor
                   /\ args.spans[i][2] = result.value[j][1]
                   /\ Stored(args.spans[i][1]) = result.value[j][2]
        /\ \A i \in 1..Len(args.spans) :
               (/\ args.spans[i][3] < Floor
                /\ \A k \in 1..Len(args.spans) :
                       args.spans[k][2] = args.spans[i][2]
                           => args.spans[k][3] < Floor)
                   => args.spans[i][2] \notin Keys(result.value)

C15_Witness ==
    /\ result.raised = "none"
    /\ args.self = "frame_coordinator.FrameTextCoordinator"
    /\ args.confidence_threshold = DEFAULT_CONFIDENCE
    /\ Len(args.spans) = 2
    /\ args.spans[1][3] < Floor
    /\ args.spans[2][3] >= Floor
    /\ args.spans[1][2] # args.spans[2][2]
    /\ Keys(result.value) = {args.spans[2][2]}

\* C16: match_template reports a match only if its score is at least the
\* threshold in force and the match lies inside the vertical band around the
\* frame's mid-height; a candidate failing either test gives None.
C16_FoundNeedsScoreAndBand ==
    (args.fn = "match_template" /\ result.raised = "none"
         /\ result.value # None) =>
        /\ args.max_val >= (IF args.threshold # None THEN args.threshold[1]
                            ELSE args.self_threshold)
        /\ InBand(args.im_h, args.max_loc, TemplateWidth, args.h)

\* the events of a returned list
Emitted(event) ==
    /\ result.raised = "none"
    /\ \E i \in 1..Len(result.value) : result.value[i] = event

\* C17: check_events returns a list that holds DUNGEON_INVITE exactly when
\* the invite button is in the frame and DUNGEON_ACTIVATE exactly when the
\* activate button is; the two button checks answer what the frame shows.
C17_ButtonsBecomeEvents ==
    /\ (args.fn = "check_events" /\ result.raised # NotCalled) =>
           /\ result.raised = "none"
           /\ Emitted("DUNGEON_INVITE") <=> args.frame.invite
           /\ Emitted("DUNGEON_ACTIVATE") <=> args.frame.activate
    /\ (args.fn = "check_dungeon_invite" /\ result.raised # NotCalled) =>
           result = Returned(args.frame.invite)
    /\ (args.fn = "check_dungeon_activation" /\ result.raised # NotCalled) =>
           result = Returned(args.frame.activate)

\* C18: check_events returns a list that holds SQUAD_COMPLETE, once, exactly
\* when some text of the dictionary contains a squad-completion keyword,
\* letter case ignored.
C18_SquadCompleteFromText ==
    (args.fn = "check_events" /\ result.raised # NotCalled) =>
        /\ result.raised = "none"
        /\ Emitted("SQUAD_COMPLETE")
               <=> \E i \in 1..Len(args.text_coords) :
                       is_squad_complete_text(args.text_coords[i][1])
        /\ Cardinality({i \in 1..Len(result.value) :
                            result.value[i] = "SQUAD_COMPLETE"}) <= 1

\* corners (x0,y0), (x1,y0), (x1,y1) and, if present, (x0,y1), x1>=x0, y1>=y0
IsRectangle(corners) ==
    /\ Len(corners) \in {3, 4}
    /\ \A i \in 1..Len(corners) : Len(corners[i]) = 2
    /\ corners[2][2] = corners[1][2]
    /\ corners[3][1] = corners[2][1]
    /\ corners[2][1] >= corners[1][1]
    /\ corners[3][2] >= corners[1][2]
    /\ Len(corners) = 4 =>
           corners[4] = <<corners[1][1], corners[3][2]>>

\* C19: for an axis-aligned rectangle (x0,y0), (x1,y0), (x1,y1)[, (x0,y1)]
\* get_center_coords returns (x0 + (x1-x0)//2, y0 + (y1-y0)//2): (5,5) for
\* the 10x10 square at the origin and (150,150) for the three corners
\* (100,100), (200,100), (200,200).
C19_RectangleCentre ==
    result.raised # NotCalled =>
        /\ IsRectangle(args) =>
               result = Returned(
                   <<args[1][1] + (args[2][1] - args[1][1]) \div 2,
                     args[1][2] + (args[3][2] - args[1][2]) \div 2>>)
        /\ args = <<<<0, 0>>, <<10, 0>>, <<10, 10>>, <<0, 10>>>> =>
               result = Returned(<<5, 5>>)
        /\ args = <<<<100, 100>>, <<200, 100>>, <<200, 200>>>> =>
               result = Returned(<<150, 150>>)

C19_Witness ==
    /\ args = <<<<100, 100>>, <<200, 100>>, <<200, 200>>>>
    /\ result = Returned(<<150, 150>>)

\* C20: a stop request that arrives while a cycle of run is in progress does
\* not cut the cycle short: stop() leaves the cycle where it is, and the
\* cycle ends only by returning its results or by raising its own error.
C20_CycleRunsToCompletion ==
    [][/\ (call = "run" /\ cycle = "active" /\ is_running /\ ~is_running') =>
              (pc' = pc /\ cycle' = cycle)
       /\ (call = "run" /\ cycle = "active") =>
              cycle' \in {"active", "returned", "raised"}]_vars

\* C21: a cycle begins only when no cycle is in progress and starts from
\* empty results; a later cycle of run begins only after the previous one
\* returned with every detected event handled; inside a cycle the action
\* list grows one action at a time, at its end: the healing action first,
\* then the response to the next detected event in order.
C21_CyclesInOrder ==
    [][/\ (cycle # "active" /\ cycle' = "active") =>
              /\ pc \in {"idle", "loop"}
              /\ results' = EmptyResults
              /\ invoked' = <<>>
              /\ (call = "run" /\ cycle_count >= 1) =>
                     /\ cycle = "returned"
                     /\ idx > Len(results.detected_events)
       /\ cycle = "active" => pc \notin {"idle", "loop"}
       /\ (cycle = "active" /\ cycle' = "active"
             /\ results'.actions_taken # results.actions_taken) =>
              \/ /\ pc = "healing"
                 /\ results'.actions_taken = <<execute_healing>>
              \/ /\ pc = "handle_events"
                 /\ idx' = idx + 1
                 /\ results'.actions_taken =
                        Append(results.actions_taken,
                               handle_event(results.detected_events[idx]))]_vars

C21_Witness ==
    /\ call = "run"
    /\ cycle_count = 1
    /\ cycle = "active"
    /\ Len(results.actions_taken) = 2

\* C22: a run with a non-negative integer max_cycles, 0 included, never has
\* more than max_cycles cycles: a cycle is in progress only while fewer than
\* max_cycles were completed, and the count never exceeds max_cycles.
C22_CycleCap ==
    (call = "run" /\ max_cycles # None) =>
        /\ cycle_count <= max_cycles[1]
        /\ (pc \in {"check_state", "check_events", "healing",
                    "handle_events"}) => cycle_count < max_cycles[1]

\* the classes of the enemies the latest update detected
DetectedTypes == {game_state.data[i].type : i \in 1..Len(game_state.data)}

\* the one input the classified state calls for
ExpectedInput ==
    CASE game_state.state = "map" -> "pyautogui.press('m')"
      [] game_state.state = "exploring" -> "pyautogui.press('w')"
      [] game_state.state = "battle" /\ 0 \in DetectedTypes ->
             "pyautogui.click(button='right')"
      [] game_state.state = "battle" /\ 0 \notin DetectedTypes
             /\ 1 \in DetectedTypes -> "pyautogui.press('e')"
      [] OTHER -> "pyautogui.click()"

UpdateDone == bot_pc = "idle" /\ game_state.state # NotCalled

\* C23: an update issues exactly one input, the one of its classified
\* state: right click for a boss, 'e' for status enemies, plain click for
\* plain enemies, 'm' on the map, 'w' when exploring; a single plain enemy
\* at confidence 0.6 gives the plain click and nothing else.
C23_OneInputPerUpdate ==
    /\ Len(issued) <= 1
    /\ UpdateDone =>
           /\ issued = <<ExpectedInput>>
           /\ screenshot.boxes = <<[cls |-> 2, conf |-> 6]>> =>
                  issued = <<"pyautogui.click()">>

C23_Witness ==
    /\ UpdateDone
    /\ screenshot.boxes = <<[cls |-> 2, conf |-> 6]>>
    /\ game_state.state = "battle"
    /\ issued = <<"pyautogui.click()">>

\* C24: every battle update goes on to its input whether or not the
\* strategy equals last_strategy; last_strategy decides only whether the
\* change is reported, and then holds the strategy just chosen.
C24_UnchangedStrategyStillActs ==
    [][/\ (bot_pc = "dispatch" /\ game_state.state = "battle") =>
              /\ bot_pc' = "attack"
              /\ bot'.last_strategy = strategy'
              /\ strategy' = get_battle_strategy(game_state.data)
              /\ (reports' # reports) <=> (strategy' # bot.last_strategy)
       /\ bot_pc = "attack" =>
              /\ issued' = <<StrategyInput(strategy)>>
              /\ bot' = bot
              /\ bot.last_strategy = strategy]_vars

C24_Witness ==
    /\ UpdateDone
    /\ game_state.state = "battle"
    /\ reports = <<>>
    /\ bot.last_strategy = "focus_status_enemies"
    /\ issued = <<"pyautogui.press('e')">>

\* C28: current_state and last_strategy change only in the step that ends
\* an update, after the update's input has been issued.
C28_TrackersChangeAtCycleEnd ==
    [][bot' # bot => (bot_pc' = "idle" /\ issued' # <<>>)]_vars

\* C27: start_game on a running controller, stop_game and execute_action
\* on a stopped one raise RuntimeError, execute_action with an empty or
\* blank name on a running controller raises ValueError, and a call that
\* raises leaves is_running and the game state as they were.
C27_LifecycleErrors ==
    [][/\ (args'.fn = "start_game" /\ controller.is_running) =>
              result' = Raised(AlreadyRunningError)
       /\ (args'.fn = "stop_game" /\ ~controller.is_running) =>
              result' = Raised(NotRunningGameError)
       /\ (args'.fn = "execute_action" /\ ~controller.is_running) =>
              result' = Raised(CannotExecuteError)
       /\ (args'.fn = "execute_action" /\ controller.is_running
             /\ IsBlank(args'.action)) =>
              result' = Raised(EmptyActionError)
       /\ result'.raised # "none" => controller' = controller]_vars

C27_Witness ==
    /\ controller.is_running
    /\ args = [fn |-> "start_game"]
    /\ result = Raised(AlreadyRunningError)

\* C30: is_running is true exactly when the game state is {status: active}
\* and false exactly when it is empty, whatever calls were made, and
\* execute_action, execute_healing and handle_event change neither.
C30_RunningMatchesState ==
    /\ [](/\ controller.is_running <=> controller.game_state = ActiveState
          /\ ~controller.is_running <=> controller.game_state = <<>>)
    /\ [][args'.fn \in {"execute_action", "execute_healing", "handle_event"}
              => controller' = controller]_vars

C30_Witness ==
    /\ ~controller.is_running
    /\ controller.game_state = <<>>
    /\ args = [fn |-> "stop_game"]
    /\ result = Returned(None)

\* the pixels of a screen of the given size
OnScreen(self, coords) ==
    /\ 0 <= coords[1]
    /\ coords[1] < self.screen_width
    /\ 0 <= coords[2]
    /\ coords[2] < self.screen_height

\* C25: move_cursor_to_coords and click raise for every coordinate pair
\* outside the screen, and then no pyautogui call has been made.
C25_OffScreenRejected ==
    (result.raised # NotCalled /\ ~OnScreen(args.self, args.coords)) =>
        result = Raised("ValueError")

\* C26: a threshold outside [0,1] makes the constructors of ImageMatcher
\* and FrameTextCoordinator raise ValueError while 0.0 and 1.0 are
\* accepted, and a None or empty frame makes EventsChecker,
\* FrameTextCoordinator, match_template and the health-bar crop raise
\* ValueError, nothing having been built or matched.
C26_InvalidInputRaises ==
    result.raised # NotCalled =>
        /\ (args.fn \in {"ImageMatcher.__init__",
                         "FrameTextCoordinator.__init__"}
              /\ (args.threshold < 0 \/ args.threshold > 100)) =>
               result = Raised("ValueError")
        /\ (args.fn = "ImageMatcher.__init__"
              /\ args.threshold \in {0, 100}) =>
               result = Returned([threshold |-> args.threshold])
        /\ (args.fn = "FrameTextCoordinator.__init__"
              /\ args.threshold \in {0, 100} /\ ~InvalidFrame(args.frame)) =>
               result.raised = "none"
        /\ (args.fn \in {"FrameTextCoordinator.__init__",
                         "EventsChecker.__init__", "_crop_health_bar_region",
                         "ImageMatcher.match_template"}
              /\ InvalidFrame(args.frame)) =>
               result = Raised("ValueError")

C26_Witness ==
    /\ args.fn = "FrameTextCoordinator.__init__"
    /\ ~InvalidFrame(args.frame)
    /\ args.threshold = 101
    /\ result = Raised("ValueError")

\* C29: a cycle over a frame whose health reading has maximum <= 0 finds
\* the reading critical, whatever its current value, and ends with the
\* healing action in its action list.
C29_NoMaximumHeals ==
    (CycleEnded /\ frame.health # None /\ frame.health[1].maximum <= 0) =>
        /\ percentage(frame.health[1]) = <<0, 1>>
        /\ is_critical(frame.health[1])
        /\ \E i \in 1..Len(results.actions_taken) :
               results.actions_taken[i] = execute_healing
====
